---- MODULE Spec2Model ----
(***************************************************************************)
(* Event dispatch core of Smart-DevOps-Assistant: the in-memory EventBus   *)
(* (app/events/event_bus.py) with its middleware chain, concurrent handler *)
(* fan-out and dead-letter queue.                                          *)
(*                                                                         *)
(* Every invocation of EventBus.publish is a "call" c; asyncio interleaves *)
(* the calls and their handler tasks at the await points, which are the    *)
(* action boundaries below.                                                *)
(***************************************************************************)
EXTENDS Integers, Sequences, FiniteSets, TLC

\* ------------------------------------------------------------------ bounds
MaxPublishes == 2
MaxMiddleware == 2
MaxSubscriptions == 2

\* One call of publish per constructed event; call c publishes the c-th event.
Calls == 1..MaxPublishes

\* ------------------------------------------------------------ input domains
\* DomainEvent is the envelope base class; SimpleEvent is a frozen dataclass
\* deriving from it (tests/unit/test_event_infrastructure.py).
EventTypes == {"DomainEvent", "SimpleEvent"}

\* The classes an instance of t is an instance of (t itself and its bases).
Mro(t) == IF t = "SimpleEvent" THEN <<"SimpleEvent", "DomainEvent">> ELSE <<t>>

\* Handlers are arbitrary callables: handle_event is a plain (async) function,
\* partial_handler is a callable without __name__ (functools.partial, callable
\* instance, Mock).
Handlers == {"handle_event", "partial_handler"}

\* Middleware callables: the shipped logging_middleware and metrics_middleware,
\* a user function tag_a that returns a copy of the event with metadata key "a",
\* and partial_middleware, a user callable without __name__.
Middlewares == {"logging_middleware", "metrics_middleware", "tag_a", "partial_middleware"}

\* A further user middleware, to_simple_event, answers every event with a new
\* SimpleEvent carrying the same data: the type of the event changes in the
\* pipeline.
SteadyMiddlewares == Middlewares \cup {"to_simple_event"}

HasName(callable) == callable \notin {"partial_handler", "partial_middleware"}

\* ------------------------------------------------------------------- events
\* DomainEvent: event_id is a fresh uuid4, metadata starts empty and cannot be
\* passed to the constructor (init=False).  metadata is kept as the sequence of
\* its keys in insertion order.
NewEvent(t, id) == [type |-> t, event_id |-> id, metadata |-> <<>>]

TypeOf(e) == e.type

NoEvent == [type |-> "None", event_id |-> 0, metadata |-> <<>>]

\* dataclasses.replace(event, **changes): fields declared init=False cannot be
\* replaced (ValueError).
NonInitFields == {"event_id", "occurred_at", "version", "event_type", "metadata"}

DataclassReplace(e, fld, v) ==
    IF fld \in NonInitFields
    THEN [raised |-> TRUE, event |-> e]
    ELSE [raised |-> FALSE, event |-> [e EXCEPT ![fld] = v]]

\* What calling middleware m on event e can do: return an event or raise.
MiddlewareCall(m, e) ==
    CASE m = "logging_middleware" -> {[raised |-> FALSE, event |-> e]}
      [] m = "metrics_middleware" ->
            {DataclassReplace(e, "metadata",
                e.metadata \o <<"processing_started_at", "middleware_applied">>)}
      [] m = "tag_a" ->
            {[raised |-> FALSE, event |-> [e EXCEPT !.metadata = Append(@, "a")]]}
      [] m = "partial_middleware" ->
            {[raised |-> FALSE, event |-> e], [raised |-> TRUE, event |-> e]}
      [] m = "to_simple_event" ->
            {[raised |-> FALSE, event |-> [e EXCEPT !.type = "SimpleEvent"]]}

\* ------------------------------------------------------------------- state
VARIABLES
    handlers,            \* EventBus._handlers: event type -> list of handlers
    middleware,          \* EventBus._middleware
    dead_letter_queue,   \* EventBus._dead_letter_queue
    next_event_id,       \* number of events constructed so far
    pc,                  \* per call: "idle", "middleware", "gather", "done"
    event,               \* per call: the argument of publish
    processed_event,     \* per call: local processed_event
    mi,                  \* per call: position of the middleware loop
    tasks,               \* per call: local tasks, [handler, status] each
    outcome,             \* per call: how publish ended
    applied,             \* per call: history of the middleware stages run
    reg_at_lookup,       \* per call: _handlers as it was at handler lookup
    mw_at_lookup,        \* per call: _middleware as it was at handler lookup
    dlq_at_publish       \* per call: length of the dead-letter queue at the call

\* InMemoryEventStore (app/events/event_store.py) and its callers.
VARIABLES
    store,               \* InMemoryEventStore._events: aggregate id -> list of events
    appends,             \* per save_events call: its arguments and progress
    commit_order,        \* history: the save_events calls in the order they ended
    last_read,           \* the latest get_events call: arguments and returned list
    next_stored_id       \* number of events handed to save_events so far

\* Construction of the concrete events (app/events/*_events.py).
VARIABLES
    constructed,         \* the latest constructor call: arguments and outcome
    next_uuid,           \* number of uuid4() values drawn so far
    last_setattr         \* outcome of the latest attribute assignment on the event

\* Callers of get_dead_letter_events and clear_dead_letter_queue.
VARIABLES
    dlq_read,            \* the latest get_dead_letter_events call and the list it returned
    clears               \* number of clear_dead_letter_queue calls so far

sinkVars == <<dlq_read, clears>>
storeVars == <<store, appends, commit_order, last_read, next_stored_id>>
ctorVars == <<constructed, next_uuid, last_setattr>>
otherVars == <<store, appends, commit_order, last_read, next_stored_id,
               constructed, next_uuid, last_setattr, dlq_read, clears>>

busVars == <<handlers, middleware, dead_letter_queue, next_event_id>>
callVars == <<pc, event, processed_event, mi, tasks, outcome, applied,
              reg_at_lookup, mw_at_lookup, dlq_at_publish>>
vars == <<handlers, middleware, dead_letter_queue, next_event_id,
          pc, event, processed_event, mi, tasks, outcome, applied,
          reg_at_lookup, mw_at_lookup, dlq_at_publish,
          store, appends, commit_order, last_read, next_stored_id,
          constructed, next_uuid, last_setattr, dlq_read, clears>>

EmptyDict == [k \in {} |-> <<>>]

\* ------------------------------------------------------------ event store
MaxAppends == 2

AppendCalls == 1..MaxAppends

\* Aggregate ids handed to the store.
Aggregates == {"A", "B"}

\* Optional[int]: None is the empty tuple, the integer k is <<k>>.
None == <<>>
Some(k) == <<k>>

\* expected_version arguments tried by the callers: none, or the version of an
\* aggregate holding one event (stale for an aggregate holding none or two).
ExpectedVersions == {None, Some(1)}

\* Sizes of the batches handed to save_events (the empty batch included).
BatchSizes == {0, 1, 2}

\* from_version arguments tried by the callers (negative and past-the-end
\* offsets included).
FromVersions == {None} \cup {Some(k) : k \in {0 - 1, 0, 1, 2, 3}}

IdleAppend ==
    [state |-> "idle", aggregate |-> "none", batch |-> <<>>, expected |-> None,
     written |-> 0, len_before |-> 0, result |-> "none"]

\* A list handed to a caller: result is what it held when it was returned,
\* aliased says that it is the stored list object itself, content is what the
\* returned object holds now when it is an object of its own, mutated that the
\* caller has changed it.
NoRead ==
    [aggregate |-> "none", from_version |-> None, result |-> <<>>,
     raised |-> FALSE, commits |-> 0, aliased |-> FALSE, content |-> <<>>,
     mutated |-> FALSE]

NoSinkRead ==
    [called |-> FALSE, result |-> <<>>, aliased |-> FALSE, content |-> <<>>,
     mutated |-> FALSE]

MaxClears == 2

StoreInit ==
    /\ store = EmptyDict
    /\ appends = [c \in AppendCalls |-> IdleAppend]
    /\ commit_order = <<>>
    /\ last_read = NoRead
    /\ next_stored_id = 1

\* ------------------------------------------------------ event construction
MaxUuids == 4

\* Ids the callers pass in; uuid4() returns ids different from all of them and
\* from each other.
CallerIds == {1, 2}
Uuid4(n) == Cardinality(CallerIds) + n

\* Optional[UUID] arguments.
OptionalIds == {None} \cup {Some(u) : u \in CallerIds}

\* List[UUID] arguments (affected_logs, sample_log_ids).
RelatedLists == {<<>>, <<1>>, <<2>>, <<1, 2>>, <<2, 1>>}

\* float arguments, counted in halves: AsHalves(1) is 1.0, and Ratios is
\* -0.5, 0.0, 0.5, 1.0, 1.5.
AsHalves(whole) == 2 * whole
Ratios == {0 - 1, 0, 1, 2, 3}

\* int arguments of the duration, size and frequency fields.
Amounts == {0 - 1, 0, 1}

EventClasses ==
    {"LogEntryCreated", "LogClassificationCompleted", "AnomalyDetected",
     "LogPatternIdentified", "IncidentCreated", "IncidentResolved",
     "IncidentEscalated", "IncidentSlaBreached", "ModelTrainingStarted",
     "ModelTrainingCompleted", "ModelDeployed", "ModelPerformanceDegraded"}

\* The constructor arguments of each class that its __post_init__ reads (plus
\* the aggregate_id argument every class takes).
ArgsOf(cls) ==
    CASE cls = "LogEntryCreated" ->
            [aggregate_id : CallerIds, log_id : CallerIds]
      [] cls = "LogClassificationCompleted" ->
            [aggregate_id : CallerIds, log_id : CallerIds, confidence : Ratios,
             processing_time_ms : Amounts]
      [] cls = "AnomalyDetected" ->
            [aggregate_id : CallerIds, affected_logs : RelatedLists,
             aggregate_root_id : OptionalIds]
      [] cls = "LogPatternIdentified" ->
            [aggregate_id : CallerIds, frequency_per_hour : Amounts,
             sample_log_ids : RelatedLists, aggregate_root_id : OptionalIds]
      [] cls \in {"IncidentCreated", "IncidentEscalated"} ->
            [aggregate_id : CallerIds, incident_id : CallerIds]
      [] cls = "IncidentResolved" ->
            [aggregate_id : CallerIds, incident_id : CallerIds,
             resolution_time_minutes : Amounts]
      [] cls = "IncidentSlaBreached" ->
            [aggregate_id : CallerIds, incident_id : CallerIds,
             target_minutes : Amounts, actual_minutes : Amounts]
      [] cls = "ModelTrainingStarted" ->
            [aggregate_id : CallerIds, model_id : CallerIds,
             training_data_size : Amounts]
      [] cls = "ModelTrainingCompleted" ->
            [aggregate_id : CallerIds, model_id : CallerIds, accuracy : Ratios,
             training_duration_minutes : Amounts]
      [] cls = "ModelDeployed" ->
            [aggregate_id : CallerIds, model_id : CallerIds, version : {"v1"}]
      [] cls = "ModelPerformanceDegraded" ->
            [aggregate_id : CallerIds, model_id : CallerIds,
             current_accuracy : Ratios, threshold_accuracy : Ratios]

\* Python values of the version attribute: the int 1 and a str.
PyInt1 == [pytype |-> "int", repr |-> "1"]
PyStr(str) == [pytype |-> "str", repr |-> str]

NoConstructedEvent ==
    [fields |-> <<>>, event_id |-> 0, event_type |-> "None", version |-> PyInt1,
     metadata |-> <<>>]

NoConstruction ==
    [type |-> "none", args |-> <<>>, raised |-> FALSE, event |-> NoConstructedEvent]

CtorInit ==
    /\ constructed = NoConstruction
    /\ next_uuid = 0
    /\ last_setattr = "none"

SinkInit ==
    /\ dlq_read = NoSinkRead
    /\ clears = 0

Init ==
    /\ StoreInit
    /\ CtorInit
    /\ SinkInit
    /\ handlers = EmptyDict
    /\ middleware = <<>>
    /\ dead_letter_queue = <<>>
    /\ next_event_id = 1
    /\ pc = [c \in Calls |-> "idle"]
    /\ event = [c \in Calls |-> NoEvent]
    /\ processed_event = [c \in Calls |-> NoEvent]
    /\ mi = [c \in Calls |-> 1]
    /\ tasks = [c \in Calls |-> <<>>]
    /\ outcome = [c \in Calls |-> "none"]
    /\ applied = [c \in Calls |-> <<>>]
    /\ reg_at_lookup = [c \in Calls |-> EmptyDict]
    /\ mw_at_lookup = [c \in Calls |-> <<>>]
    /\ dlq_at_publish = [c \in Calls |-> 0]

\* ---------------------------------------------------------------- helpers
\* Number of registrations held by the registry.
RECURSIVE SumLen(_, _)
SumLen(d, ks) ==
    IF ks = {} THEN 0
    ELSE LET k == CHOOSE x \in ks : TRUE IN Len(d[k]) + SumLen(d, ks \ {k})

Subscriptions == SumLen(handlers, DOMAIN handlers)

\* self._handlers[event_type].append(handler) on a defaultdict(list).
DefaultDictAppend(d, k, v) ==
    IF k \in DOMAIN d THEN [d EXCEPT ![k] = Append(@, v)] ELSE d @@ (k :> <<v>>)

\* Variant: dispatch by isinstance, the handlers of every class of the event.
LookupHandlersIsInstance(reg, e) ==
    LET ms == Mro(TypeOf(e))
        Get(k) == IF k \in DOMAIN reg THEN reg[k] ELSE <<>>
    IN [found |-> IF Len(ms) = 2 THEN Get(ms[1]) \o Get(ms[2]) ELSE Get(ms[1]),
        registry |-> reg]

\* Variant: self._handlers.pop(type(processed_event), []), which takes the
\* entry out of the registry.
LookupHandlersPop(reg, e) ==
    [found |-> IF TypeOf(e) \in DOMAIN reg THEN reg[TypeOf(e)] ELSE <<>>,
     registry |-> [k \in DOMAIN reg \ {TypeOf(e)} |-> reg[k]]]

\* Variant: self._handlers[type(processed_event)], which makes a defaultdict
\* create the missing entry.
LookupHandlersGetItem(reg, e) ==
    [found |-> IF TypeOf(e) \in DOMAIN reg THEN reg[TypeOf(e)] ELSE <<>>,
     registry |-> IF TypeOf(e) \in DOMAIN reg THEN reg ELSE reg @@ (TypeOf(e) :> <<>>)]

\* self._handlers.get(type(processed_event), []): the list found and the
\* registry as the lookup leaves it.
LookupHandlers(reg, e) ==
    [found |-> IF TypeOf(e) \in DOMAIN reg THEN reg[TypeOf(e)] ELSE <<>>,
     registry |-> reg]

\* Variant: the loop walks the list from its end.
StageAtReversed(mws, i) == mws[Len(mws) + 1 - i]

\* for middleware in self._middleware: the stage the loop runs at position i.
StageAt(mws, i) == mws[i]

\* _apply_middleware: the result of one stage.  A raising middleware is logged
\* by its __name__ and the incoming event is returned; when the callable has no
\* __name__ the AttributeError raised inside the except block escapes.
ApplyMiddlewareResults(m, e) ==
    { IF r.raised
      THEN [escaped |-> ~HasName(m), failed |-> TRUE, event |-> e]
      ELSE [escaped |-> FALSE, failed |-> FALSE, event |-> r.event]
      : r \in MiddlewareCall(m, e) }

Settled(t) == t.status \in {"ok", "failed", "cancelled"}

RECURSIVE Dedup(_)
Dedup(sq) ==
    IF sq = <<>> THEN <<>>
    ELSE LET front == Dedup(SubSeq(sq, 1, Len(sq) - 1)) IN
         IF \E i \in 1..Len(front) : front[i] = sq[Len(sq)]
         THEN front
         ELSE Append(front, sq[Len(sq)])

\* Variant: tasks created from the last registered handler to the first.
CreateTasksReversed(hs, e) ==
    [i \in 1..Len(hs) |->
        [handler |-> hs[Len(hs) + 1 - i], status |-> "pending", event |-> e]]

\* Variant: one task per distinct handler.
CreateTasksDedup(hs, e) ==
    [i \in 1..Len(Dedup(hs)) |->
        [handler |-> Dedup(hs)[i], status |-> "pending", event |-> e]]

\* tasks = [create_task(_execute_handler(handler, processed_event)) ...]:
\* each task holds its handler and the event the handler is called with.
CreateTasks(hs, e) ==
    [i \in 1..Len(hs) |-> [handler |-> hs[i], status |-> "pending", event |-> e]]

\* Variant: the handlers are called with the argument of publish.
HandlerArgumentOriginal(original, processed) == original

\* self._execute_handler(handler, processed_event)
HandlerArgument(original, processed) == processed

\* Variant: a failing task cancels its unfinished siblings.
SettleTaskCancelSiblings(ts, i, result) ==
    [j \in 1..Len(ts) |->
        IF j = i THEN [ts[j] EXCEPT !.status = result]
        ELSE IF result = "failed" /\ ts[j].status \in {"pending", "running"}
             THEN [ts[j] EXCEPT !.status = "cancelled"]
             ELSE ts[j]]

\* A task ends: _execute_handler returned ("ok") or re-raised ("failed").
\* The other tasks are not touched.
SettleTask(ts, i, result) == [ts EXCEPT ![i].status = result]

\* Variant: gather without return_exceptions, which resumes the caller at the
\* first failure.
GatherFirstException(ts) ==
    \/ \A i \in 1..Len(ts) : Settled(ts[i])
    \/ \E i \in 1..Len(ts) : ts[i].status = "failed"

\* Variant: asyncio.wait(tasks, timeout=...), which resumes publish when the
\* timeout expires whatever the tasks did.
GatherWithTimeout(ts) == TRUE

\* asyncio.gather(*tasks, return_exceptions=True) resumes publish once every
\* task is done.
GatherDone(ts) == \A i \in 1..Len(ts) : Settled(ts[i])

\* The loop that logs failed results reads handlers[i].__name__.
LogFailures(ts) ==
    IF \E i \in 1..Len(ts) : ts[i].status = "failed" /\ ~HasName(ts[i].handler)
    THEN "AttributeError"
    ELSE "none"

\* except Exception as e: the classes the clause of publish catches.  What the
\* modelled callables and the bus's own statements raise are all subclasses of
\* Exception; task cancellation and interpreter exits are not modelled.
ExceptionClasses == {"AttributeError", "ValueError", "RuntimeError"}

\* Variant: except ValueError.
ExceptClauseNarrow(exc) == exc \in {"ValueError"}

ExceptClause(exc) == exc \in ExceptionClasses

\* Variant: self._dead_letter_queue.append(processed_event)
DeadLetterEntryProcessed(original, processed) == processed

\* self._dead_letter_queue.append(event)
DeadLetterEntry(original, processed) == original

\* Variant: self._dead_letter_queue = [entry]
DeadLetterAppendReplace(queue, entry) == <<entry>>

\* self._dead_letter_queue.append(entry): one statement without await.
DeadLetterAppend(queue, entry) == Append(queue, entry)

\* An exception exc leaves the try block of publish of call c.
Escape(c, exc) ==
    /\ pc' = [pc EXCEPT ![c] = "done"]
    /\ IF ExceptClause(exc)
       THEN /\ dead_letter_queue' =
                 DeadLetterAppend(dead_letter_queue,
                                  DeadLetterEntry(event[c], processed_event[c]))
            /\ outcome' = [outcome EXCEPT ![c] = "dead_lettered"]
       ELSE /\ dead_letter_queue' = dead_letter_queue
            /\ outcome' = [outcome EXCEPT ![c] = "raised"]

\* ---------------------------------------------------------------- actions
\* EventBus.subscribe.  For a handler without __name__ the log call raises
\* AttributeError to the subscriber after the handler has been appended.
Subscribe(t, h) ==
    /\ Subscriptions < MaxSubscriptions
    /\ handlers' = DefaultDictAppend(handlers, t, h)
    /\ UNCHANGED <<middleware, dead_letter_queue, next_event_id, callVars>>
    /\ UNCHANGED otherVars

\* EventBus.add_middleware
AddMiddleware(m) ==
    /\ Len(middleware) < MaxMiddleware
    /\ middleware' = Append(middleware, m)
    /\ UNCHANGED <<handlers, dead_letter_queue, next_event_id, callVars>>
    /\ UNCHANGED otherVars

\* A producer constructs an event of type t and calls publish(event).
Publish(c, t) ==
    /\ pc[c] = "idle"
    /\ c = next_event_id
    /\ next_event_id' = next_event_id + 1
    /\ pc' = [pc EXCEPT ![c] = "middleware"]
    /\ event' = [event EXCEPT ![c] = NewEvent(t, next_event_id)]
    /\ processed_event' = [processed_event EXCEPT ![c] = NewEvent(t, next_event_id)]
    /\ mi' = [mi EXCEPT ![c] = 1]
    /\ tasks' = [tasks EXCEPT ![c] = <<>>]
    /\ outcome' = [outcome EXCEPT ![c] = "none"]
    /\ applied' = [applied EXCEPT ![c] = <<>>]
    /\ reg_at_lookup' = [reg_at_lookup EXCEPT ![c] = EmptyDict]
    /\ mw_at_lookup' = [mw_at_lookup EXCEPT ![c] = <<>>]
    /\ dlq_at_publish' = [dlq_at_publish EXCEPT ![c] = Len(dead_letter_queue)]
    /\ UNCHANGED <<handlers, middleware, dead_letter_queue>>
    /\ UNCHANGED otherVars

\* One iteration of the middleware loop of publish.
ApplyMiddleware(c) ==
    /\ pc[c] = "middleware"
    /\ mi[c] <= Len(middleware)
    /\ \E r \in ApplyMiddlewareResults(StageAt(middleware, mi[c]), processed_event[c]) :
          /\ applied' = [applied EXCEPT ![c] =
                Append(@, [stage |-> StageAt(middleware, mi[c]),
                           input |-> processed_event[c],
                           output |-> r.event,
                           failed |-> r.failed,
                           escaped |-> r.escaped])]
          /\ IF r.escaped
             THEN /\ Escape(c, "AttributeError")
                  /\ UNCHANGED <<processed_event, mi>>
             ELSE /\ processed_event' = [processed_event EXCEPT ![c] = r.event]
                  /\ mi' = [mi EXCEPT ![c] = @ + 1]
                  /\ UNCHANGED <<pc, outcome, dead_letter_queue>>
    /\ UNCHANGED <<handlers, middleware, next_event_id, event, tasks,
                   reg_at_lookup, mw_at_lookup, dlq_at_publish>>
    /\ UNCHANGED otherVars

\* The middleware loop is over: handler lookup, then either the early return
\* or the creation of one task per handler.
Dispatch(c) ==
    /\ pc[c] = "middleware"
    /\ mi[c] > Len(middleware)
    /\ LET look == LookupHandlers(handlers, processed_event[c]) IN
          /\ handlers' = look.registry
          /\ reg_at_lookup' = [reg_at_lookup EXCEPT ![c] = handlers]
          /\ mw_at_lookup' = [mw_at_lookup EXCEPT ![c] = middleware]
          /\ IF look.found = <<>>
             THEN /\ pc' = [pc EXCEPT ![c] = "done"]
                  /\ outcome' = [outcome EXCEPT ![c] = "ok"]
                  /\ tasks' = tasks
             ELSE /\ pc' = [pc EXCEPT ![c] = "gather"]
                  /\ outcome' = outcome
                  /\ tasks' = [tasks EXCEPT ![c] =
                        CreateTasks(look.found,
                                    HandlerArgument(event[c], processed_event[c]))]
    /\ UNCHANGED <<middleware, dead_letter_queue, next_event_id, event,
                   processed_event, mi, applied, dlq_at_publish>>
    /\ UNCHANGED otherVars

\* The event loop runs task i of call c up to the handler's first suspension.
StartHandler(c, i) ==
    /\ pc[c] = "gather"
    /\ i \in 1..Len(tasks[c])
    /\ tasks[c][i].status = "pending"
    /\ tasks' = [tasks EXCEPT ![c][i].status = "running"]
    /\ UNCHANGED <<busVars, pc, event, processed_event, mi, outcome, applied,
                   reg_at_lookup, mw_at_lookup, dlq_at_publish>>
    /\ UNCHANGED otherVars

\* The handler of task i returns or raises.
FinishHandler(c, i, result) ==
    /\ pc[c] = "gather"
    /\ i \in 1..Len(tasks[c])
    /\ tasks[c][i].status = "running"
    /\ tasks' = [tasks EXCEPT ![c] = SettleTask(@, i, result)]
    /\ UNCHANGED <<busVars, pc, event, processed_event, mi, outcome, applied,
                   reg_at_lookup, mw_at_lookup, dlq_at_publish>>
    /\ UNCHANGED otherVars

\* gather resumes publish: failures are logged and publish returns.
Settle(c) ==
    /\ pc[c] = "gather"
    /\ GatherDone(tasks[c])
    /\ IF LogFailures(tasks[c]) = "none"
       THEN /\ pc' = [pc EXCEPT ![c] = "done"]
            /\ outcome' = [outcome EXCEPT ![c] = "ok"]
            /\ dead_letter_queue' = dead_letter_queue
       ELSE Escape(c, LogFailures(tasks[c]))
    /\ UNCHANGED <<handlers, middleware, next_event_id, event, processed_event,
                   mi, tasks, applied, reg_at_lookup, mw_at_lookup, dlq_at_publish>>
    /\ UNCHANGED otherVars

Next ==
    \/ \E t \in EventTypes, h \in Handlers : Subscribe(t, h)
    \/ \E m \in Middlewares : AddMiddleware(m)
    \/ \E c \in Calls, t \in EventTypes : Publish(c, t)
    \/ \E c \in Calls : ApplyMiddleware(c)
    \/ \E c \in Calls : Dispatch(c)
    \/ \E c \in Calls, i \in 1..MaxSubscriptions : StartHandler(c, i)
    \/ \E c \in Calls, i \in 1..MaxSubscriptions, result \in {"ok", "failed"} :
          FinishHandler(c, i, result)
    \/ \E c \in Calls : Settle(c)

Spec == Init /\ [][Next]_vars

\* ------------------------------------------------------ steady-state traffic
\* The embedding application registers handlers and middleware before the
\* first publish, as the bus expects (no locking around the registry).
SetupSubscribe(t, h) ==
    /\ next_event_id = 1
    /\ Subscribe(t, h)

SetupAddMiddleware(m) ==
    /\ next_event_id = 1
    /\ AddMiddleware(m)

NextSteady ==
    \/ \E t \in EventTypes, h \in Handlers : SetupSubscribe(t, h)
    \/ \E m \in SteadyMiddlewares : SetupAddMiddleware(m)
    \/ \E c \in Calls, t \in EventTypes : Publish(c, t)
    \/ \E c \in Calls : ApplyMiddleware(c)
    \/ \E c \in Calls : Dispatch(c)
    \/ \E c \in Calls, i \in 1..MaxSubscriptions : StartHandler(c, i)
    \/ \E c \in Calls, i \in 1..MaxSubscriptions, result \in {"ok", "failed"} :
          FinishHandler(c, i, result)
    \/ \E c \in Calls : Settle(c)

SpecSteady == Init /\ [][NextSteady]_vars

\* ------------------------------------------------------------- scheduling
\* The call published first.
FirstCall == CHOOSE c \in Calls : \A d \in Calls : c <= d

\* The event loop runs every callback that is ready: a publish coroutine goes
\* through its middleware loop (the stages return or raise), looks its handlers
\* up, its tasks get started, and gather resumes it once it may.
FairLoop ==
    \A c \in Calls :
        /\ WF_vars(ApplyMiddleware(c))
        /\ WF_vars(Dispatch(c))
        /\ WF_vars(Settle(c))
        /\ \A i \in 1..MaxSubscriptions : WF_vars(StartHandler(c, i))

\* The handlers of every call but the first return or raise in the end; a
\* handler of the first call may stay suspended for ever.
FairHandlers ==
    \A c \in Calls \ {FirstCall} :
        \A i \in 1..MaxSubscriptions :
            WF_vars(\E result \in {"ok", "failed"} : FinishHandler(c, i, result))

SpecHang == Init /\ [][NextSteady]_vars /\ FairLoop /\ FairHandlers

\* ------------------------------------------------------ event store actions
Min(a, b) == IF a < b THEN a ELSE b
Max(a, b) == IF a > b THEN a ELSE b

\* The events with ids first..first+k-1, in that order.
FreshBatch(first, k) == [i \in 1..k |-> first + i - 1]

\* self._events.setdefault(aggregate_id, []) instead: the lookup stores the
\* default.
StoreGetSetDefault(st, a) ==
    [found |-> IF a \in DOMAIN st THEN st[a] ELSE <<>>,
     store |-> IF a \in DOMAIN st THEN st ELSE st @@ (a :> <<>>),
     raised |-> FALSE]

\* self._events.get(aggregate_id, []) on a plain dict: the list found, the
\* store as the lookup leaves it, and whether the lookup raised.
StoreGet(st, a) ==
    [found |-> IF a \in DOMAIN st THEN st[a] ELSE <<>>,
     store |-> st,
     raised |-> FALSE]

\* events[from_version + 1:] instead.
PySliceFromExclusive(sq, k) ==
    LET n == Len(sq)
        start == IF k + 1 < 0 THEN Max(n + k + 1, 0) ELSE Min(k + 1, n)
    IN SubSeq(sq, start + 1, n)

\* events[from_version:] with Python's slice rules: a negative start counts
\* from the end, a start outside the list is clamped.
PySliceFrom(sq, k) ==
    LET n == Len(sq)
        start == IF k < 0 THEN Max(n + k, 0) ELSE Min(k, n)
    IN SubSeq(sq, start + 1, n)

\* Variant: return the list itself; the caller then holds the stored object
\* when there is one.
ListItself(l, stored) == [value |-> l, aliased |-> stored]

\* l.copy(): a new list with the same elements.
ListCopy(l, stored) == [value |-> l, aliased |-> FALSE]

\* InMemoryEventStore.get_events: a slice (always a new list) when
\* from_version is given, else a copy.
GetEventsResult(st, a, fv) ==
    LET look == StoreGet(st, a)
        copy == ListCopy(look.found, a \in DOMAIN st)
    IN
    [result |-> IF fv # None THEN PySliceFrom(look.found, fv[1]) ELSE copy.value,
     aliased |-> IF fv # None THEN FALSE ELSE copy.aliased,
     store |-> look.store,
     raised |-> look.raised]

\* A body that yields to the event loop after every stored event.
ExtendChunkOne(batch, written) == SubSeq(batch, written + 1, Min(written + 1, Len(batch)))

\* The part of the batch that one uninterrupted run of the body of save_events
\* stores from position written on: the body has no await, so extend() stores
\* all of it.
ExtendChunk(batch, written) == SubSeq(batch, written + 1, Len(batch))

\* Variant: one list shared by all aggregates (every entry is extended).
StoreExtendShared(st, a, chunk) ==
    [b \in DOMAIN st \cup {a} |-> (IF b \in DOMAIN st THEN st[b] ELSE <<>>) \o chunk]

\* self._events[aggregate_id] = list(chunk) instead.
StoreExtendReplace(st, a, chunk) ==
    IF a \in DOMAIN st THEN [st EXCEPT ![a] = chunk] ELSE st @@ (a :> chunk)

\* if aggregate_id not in self._events: self._events[aggregate_id] = []
\* self._events[aggregate_id].extend(chunk)
StoreExtend(st, a, chunk) ==
    IF a \in DOMAIN st THEN [st EXCEPT ![a] = @ \o chunk] ELSE st @@ (a :> chunk)

StoredLen(st, a) == IF a \in DOMAIN st THEN Len(st[a]) ELSE 0

\* A caller creates the coroutine save_events(a, batch, exp) with a batch of k
\* new events (as a task, or awaited directly).
CallSaveEvents(c, a, k, exp) ==
    /\ appends[c].state = "idle"
    /\ \A d \in AppendCalls : d < c => appends[d].state # "idle"
    /\ appends' = [appends EXCEPT ![c] =
          [state |-> "pending", aggregate |-> a,
           batch |-> FreshBatch(next_stored_id, k), expected |-> exp,
           written |-> 0, len_before |-> 0, result |-> "none"]]
    /\ next_stored_id' = next_stored_id + k
    /\ UNCHANGED <<store, commit_order, last_read>>
    /\ UNCHANGED <<busVars, callVars, ctorVars, sinkVars>>

\* The event loop runs the body of save_events of call c.  expected_version is
\* never read.
RunSaveEvents(c) ==
    /\ appends[c].state \in {"pending", "running"}
    /\ LET ap == appends[c]
           chunk == ExtendChunk(ap.batch, ap.written)
           now == ap.written + Len(chunk)
       IN /\ store' = StoreExtend(store, ap.aggregate, chunk)
          /\ appends' = [appends EXCEPT ![c] =
                [ap EXCEPT
                   !.written = now,
                   !.len_before = IF ap.state = "pending"
                                  THEN StoredLen(store, ap.aggregate) ELSE @,
                   !.state = IF now = Len(ap.batch) THEN "done" ELSE "running",
                   !.result = IF now = Len(ap.batch) THEN "ok" ELSE "none"]]
          /\ commit_order' = IF now = Len(ap.batch)
                             THEN Append(commit_order, c) ELSE commit_order
    /\ UNCHANGED <<last_read, next_stored_id>>
    /\ UNCHANGED <<busVars, callVars, ctorVars, sinkVars>>

\* InMemoryEventStore.get_events(a, fv); the body has no await.
GetEvents(a, fv) ==
    /\ LET r == GetEventsResult(store, a, fv) IN
          /\ store' = r.store
          /\ last_read' = [aggregate |-> a, from_version |-> fv, result |-> r.result,
                           raised |-> r.raised, commits |-> Len(commit_order),
                           aliased |-> r.aliased, content |-> r.result,
                           mutated |-> FALSE]
    /\ UNCHANGED <<appends, commit_order, next_stored_id>>
    /\ UNCHANGED <<busVars, callVars, ctorVars, sinkVars>>

NextStore ==
    \/ \E c \in AppendCalls, a \in Aggregates, k \in BatchSizes, exp \in ExpectedVersions :
          CallSaveEvents(c, a, k, exp)
    \/ \E c \in AppendCalls : RunSaveEvents(c)
    \/ \E a \in Aggregates, fv \in FromVersions : GetEvents(a, fv)

SpecStore == Init /\ [][NextStore]_vars

\* ------------------------------------------------ callers of the read results
\* The caller of get_events appends an element (0) to the list it was handed.
MutateGetEventsResult ==
    /\ last_read.aggregate # "none"
    /\ ~last_read.mutated
    /\ IF last_read.aliased
       THEN /\ store' = [store EXCEPT ![last_read.aggregate] = Append(@, 0)]
            /\ last_read' = [last_read EXCEPT !.mutated = TRUE]
       ELSE /\ store' = store
            /\ last_read' = [last_read EXCEPT !.content = Append(@, 0), !.mutated = TRUE]
    /\ UNCHANGED <<appends, commit_order, next_stored_id>>
    /\ UNCHANGED <<busVars, callVars, ctorVars, sinkVars>>

\* Variant: del self._dead_letter_queue[0]
ClearQueueOldest(queue) == IF queue = <<>> THEN <<>> ELSE Tail(queue)

\* self._dead_letter_queue.clear()
ClearQueue(queue) == <<>>

\* EventBus.get_dead_letter_events
GetDeadLetterEvents ==
    /\ LET r == ListCopy(dead_letter_queue, TRUE) IN
          dlq_read' = [called |-> TRUE, result |-> r.value, aliased |-> r.aliased,
                       content |-> r.value, mutated |-> FALSE]
    /\ UNCHANGED <<busVars, callVars, storeVars, ctorVars, clears>>

\* EventBus.clear_dead_letter_queue
ClearDeadLetterQueue ==
    /\ clears < MaxClears
    /\ clears' = clears + 1
    /\ dead_letter_queue' = ClearQueue(dead_letter_queue)
    /\ UNCHANGED <<handlers, middleware, next_event_id, callVars, storeVars,
                   ctorVars, dlq_read>>

\* The caller of get_dead_letter_events appends an element to the list it was
\* handed.
MutateDeadLetterResult ==
    /\ dlq_read.called
    /\ ~dlq_read.mutated
    /\ IF dlq_read.aliased
       THEN /\ dead_letter_queue' = Append(dead_letter_queue, NoEvent)
            /\ dlq_read' = [dlq_read EXCEPT !.mutated = TRUE]
       ELSE /\ dead_letter_queue' = dead_letter_queue
            /\ dlq_read' = [dlq_read EXCEPT !.content = Append(@, NoEvent),
                                            !.mutated = TRUE]
    /\ UNCHANGED <<handlers, middleware, next_event_id, callVars, storeVars,
                   ctorVars, clears>>

\* The bus with a failing user middleware and a failing handler registered
\* before the first publish, its dead-letter queue read and cleared, next to an
\* event store that callers append to and read from.
NextReads ==
    \/ SetupSubscribe("SimpleEvent", "partial_handler")
    \/ SetupAddMiddleware("partial_middleware")
    \/ \E c \in Calls : Publish(c, "SimpleEvent")
    \/ \E c \in Calls : ApplyMiddleware(c)
    \/ \E c \in Calls : Dispatch(c)
    \/ \E c \in Calls, i \in 1..MaxSubscriptions : StartHandler(c, i)
    \/ \E c \in Calls, i \in 1..MaxSubscriptions : FinishHandler(c, i, "failed")
    \/ \E c \in Calls : Settle(c)
    \/ GetDeadLetterEvents
    \/ ClearDeadLetterQueue
    \/ MutateDeadLetterResult
    \/ \E c \in AppendCalls : CallSaveEvents(c, "A", 1, None)
    \/ \E c \in AppendCalls : RunSaveEvents(c)
    \/ \E fv \in {None, Some(0)} : GetEvents("A", fv)
    \/ MutateGetEventsResult

SpecReads == Init /\ [][NextReads]_vars

\* ---------------------------------------------------- event construction
Raise == [raised |-> TRUE, aggregate_id |-> 0, draws |-> 0]
SetAggregateId(id, draws) == [raised |-> FALSE, aggregate_id |-> id, draws |-> draws]

\* 0 <= x <= 1 on an open range instead.
InUnitRangeOpen(x) == AsHalves(0) < x /\ x < AsHalves(1)

\* 0.0 <= x <= 1.0
InUnitRange(x) == AsHalves(0) <= x /\ x <= AsHalves(1)

\* Keeping the aggregate_id constructor argument instead.
PrimaryAggregateIdKeepArgument(a, primary) == SetAggregateId(a.aggregate_id, 0)

\* object.__setattr__(self, "aggregate_id", self.<primary id>)
PrimaryAggregateId(a, primary) == SetAggregateId(primary, 0)

\* Deriving from the related list before looking at the override.
DerivedAggregateIdListFirst(override, related, fresh) ==
    IF related # <<>> THEN SetAggregateId(related[1], 0)
    ELSE IF override # None THEN SetAggregateId(override[1], 0)
    ELSE SetAggregateId(fresh, 1)

\* if self.aggregate_root_id: ... elif <list>: <list>[0] else: uuid4()
\* (a UUID is always truthy, an empty list is falsy).
DerivedAggregateId(override, related, fresh) ==
    IF override # None THEN SetAggregateId(override[1], 0)
    ELSE IF related # <<>> THEN SetAggregateId(related[1], 0)
    ELSE SetAggregateId(fresh, 1)

\* __post_init__ of each class, up to the call of DomainEvent.__post_init__;
\* fresh is the id the next uuid4() call returns.
LogEntryCreated_post_init(a, fresh) == PrimaryAggregateId(a, a.log_id)

LogClassificationCompleted_post_init(a, fresh) ==
    IF ~InUnitRange(a.confidence) THEN Raise
    ELSE IF a.processing_time_ms < 0 THEN Raise
    ELSE PrimaryAggregateId(a, a.log_id)

AnomalyDetected_post_init(a, fresh) ==
    DerivedAggregateId(a.aggregate_root_id, a.affected_logs, fresh)

LogPatternIdentified_post_init(a, fresh) ==
    IF a.frequency_per_hour < 0 THEN Raise
    ELSE DerivedAggregateId(a.aggregate_root_id, a.sample_log_ids, fresh)

Incident_post_init(a, fresh) == PrimaryAggregateId(a, a.incident_id)

ModelTrainingStarted_post_init(a, fresh) ==
    IF a.training_data_size < 0 THEN Raise
    ELSE PrimaryAggregateId(a, a.model_id)

ModelTrainingCompleted_post_init(a, fresh) ==
    IF ~InUnitRange(a.accuracy) THEN Raise
    ELSE IF a.training_duration_minutes < 0 THEN Raise
    ELSE PrimaryAggregateId(a, a.model_id)

ModelDeployed_post_init(a, fresh) == PrimaryAggregateId(a, a.model_id)

ModelPerformanceDegraded_post_init(a, fresh) ==
    IF ~InUnitRange(a.current_accuracy) THEN Raise
    ELSE IF ~InUnitRange(a.threshold_accuracy) THEN Raise
    ELSE PrimaryAggregateId(a, a.model_id)

PostInit(cls, a, fresh) ==
    CASE cls = "LogEntryCreated" -> LogEntryCreated_post_init(a, fresh)
      [] cls = "LogClassificationCompleted" -> LogClassificationCompleted_post_init(a, fresh)
      [] cls = "AnomalyDetected" -> AnomalyDetected_post_init(a, fresh)
      [] cls = "LogPatternIdentified" -> LogPatternIdentified_post_init(a, fresh)
      [] cls \in {"IncidentCreated", "IncidentResolved", "IncidentEscalated",
                  "IncidentSlaBreached"} -> Incident_post_init(a, fresh)
      [] cls = "ModelTrainingStarted" -> ModelTrainingStarted_post_init(a, fresh)
      [] cls = "ModelTrainingCompleted" -> ModelTrainingCompleted_post_init(a, fresh)
      [] cls = "ModelDeployed" -> ModelDeployed_post_init(a, fresh)
      [] cls = "ModelPerformanceDegraded" -> ModelPerformanceDegraded_post_init(a, fresh)

\* The name of the List[UUID] field of a class, if it has one.
RelatedField(cls) ==
    CASE cls = "AnomalyDetected" -> "affected_logs"
      [] cls = "LogPatternIdentified" -> "sample_log_ids"
      [] OTHER -> "none"

\* The version attribute after __init__: DomainEvent declares
\* version: int = field(default=1, init=False); ModelDeployed redeclares
\* version: str = field(), an init argument stored in the same attribute.
VersionAttribute(cls, a) == IF cls = "ModelDeployed" THEN PyStr(a.version) ELSE PyInt1

\* DomainEvent.__post_init__: event_type is the class name, metadata is {}.
\* metadata is kept as the sequence of its keys.
Base_post_init(cls) == [event_type |-> cls, metadata |-> <<>>]

\* cls(**a): the generated __init__ stores the arguments and draws event_id
\* from uuid4(), then __post_init__ runs; when it raises, no event exists.
Construct(cls, a) ==
    /\ next_uuid + 2 <= MaxUuids
    /\ LET event_id == Uuid4(next_uuid + 1)
           post == PostInit(cls, a, Uuid4(next_uuid + 2))
       IN /\ constructed' =
                [type |-> cls, args |-> a, raised |-> post.raised,
                 event |-> IF post.raised THEN NoConstructedEvent
                           ELSE [fields |-> [a EXCEPT !.aggregate_id = post.aggregate_id],
                                 event_id |-> event_id,
                                 event_type |-> Base_post_init(cls).event_type,
                                 version |-> VersionAttribute(cls, a),
                                 metadata |-> Base_post_init(cls).metadata]]
          /\ next_uuid' = next_uuid + 1 + post.draws
          /\ last_setattr' = "none"
    /\ UNCHANGED <<busVars, callVars, storeVars, sinkVars>>

\* The caller mutates the list it passed as affected_logs / sample_log_ids; the
\* event holds the same list object.
MutateRelated(op) ==
    /\ ~constructed.raised
    /\ RelatedField(constructed.type) # "none"
    /\ LET f == RelatedField(constructed.type)
           old == constructed.event.fields[f]
           new == IF op = "clear" THEN <<>>
                  ELSE [i \in 1..Len(old) |-> old[Len(old) + 1 - i]]
       IN constructed' = [constructed EXCEPT !.event.fields[f] = new]
    /\ UNCHANGED <<next_uuid, last_setattr>>
    /\ UNCHANGED <<busVars, callVars, storeVars, sinkVars>>

\* The attributes of an event: the envelope fields and the business fields.
Attributes(ev) == {"event_id", "event_type", "version", "metadata"} \cup DOMAIN ev.fields

\* event.<attr> = value on an instance of a dataclass declared frozen=True:
\* the generated __setattr__ raises FrozenInstanceError and stores nothing.
FrozenSetAttr(ev, attr) == [raised |-> "FrozenInstanceError", event |-> ev]

\* Some holder of the event tries event.<attr> = value.
SetAttr(attr) ==
    /\ constructed.type # "none"
    /\ ~constructed.raised
    /\ attr \in Attributes(constructed.event)
    /\ LET r == FrozenSetAttr(constructed.event, attr) IN
          /\ constructed' = [constructed EXCEPT !.event = r.event]
          /\ last_setattr' = r.raised
    /\ UNCHANGED next_uuid
    /\ UNCHANGED <<busVars, callVars, storeVars, sinkVars>>

\* Some holder of the event runs event.metadata[key] = value: an item
\* assignment on the dict the field refers to, which frozen=True does not
\* intercept.
SetMetadataItem(key) ==
    /\ constructed.type # "none"
    /\ ~constructed.raised
    /\ key \notin {constructed.event.metadata[i] : i \in DOMAIN constructed.event.metadata}
    /\ constructed' = [constructed EXCEPT !.event.metadata = Append(@, key)]
    /\ UNCHANGED <<next_uuid, last_setattr>>
    /\ UNCHANGED <<busVars, callVars, storeVars, sinkVars>>

NextEvents ==
    \/ \E cls \in EventClasses : \E a \in ArgsOf(cls) : Construct(cls, a)
    \/ \E op \in {"clear", "reverse"} : MutateRelated(op)
    \/ \E attr \in {"event_id", "event_type", "version", "metadata",
                     "aggregate_id", "confidence", "incident_id"} : SetAttr(attr)
    \/ \E key \in {"seen"} : SetMetadataItem(key)

SpecEvents == Init /\ [][NextEvents]_vars

\* ------------------------------------------------------------- properties
InDeadLetter(e) ==
    \E i \in 1..Len(dead_letter_queue) : dead_letter_queue[i].event_id = e.event_id

\* The middleware loop of call c ended without an exception leaving it, and
\* publish went on to the handler lookup.
ReachedLookup(c) ==
    /\ pc[c] \in {"gather", "done"}
    /\ \A i \in 1..Len(applied[c]) : ~applied[c][i].escaped

\* The handlers registered, when call c looked them up, for the type of its
\* processed event.
RegisteredAtLookup(c) ==
    IF TypeOf(processed_event[c]) \in DOMAIN reg_at_lookup[c]
    THEN reg_at_lookup[c][TypeOf(processed_event[c])]
    ELSE <<>>

Occurrences(sq, x) == Cardinality({i \in 1..Len(sq) : sq[i] = x})

Invocations(c, h) ==
    Cardinality({i \in 1..Len(tasks[c]) :
                    tasks[c][i].handler = h /\ tasks[c][i].status # "pending"})

\* C1: handler isolation.  When publish returns and some of its handlers have
\* failed, every handler registered for the event's type has nevertheless been
\* invoked and has run to completion (returned or raised, none cancelled or left
\* unstarted), and publish has not raised to the publisher.
C1_HandlerIsolation ==
    \A c \in Calls :
        (pc[c] = "done" /\ \E i \in 1..Len(tasks[c]) : tasks[c][i].status = "failed")
        => /\ Len(tasks[c]) = Len(RegisteredAtLookup(c))
           /\ \A j \in 1..Len(tasks[c]) :
                 /\ tasks[c][j].handler = RegisteredAtLookup(c)[j]
                 /\ tasks[c][j].status \in {"ok", "failed"}
           /\ outcome[c] # "raised"

\* A publish has returned with one handler failed and a sibling completed.
C1_Witness ==
    \E c \in Calls :
        /\ pc[c] = "done"
        /\ Len(tasks[c]) >= 2
        /\ \E i, j \in 1..Len(tasks[c]) :
              tasks[c][i].status = "failed" /\ tasks[c][j].status = "ok"

\* C2: the dead-letter queue holds only events whose publish failed in the
\* orchestration; a publish in which handlers failed and nothing else did
\* (no middleware stage failed) leaves its event out of the dead-letter queue.
C2_HandlerFailureNotDeadLettered ==
    \A c \in Calls :
        ( /\ pc[c] = "done"
          /\ \A i \in 1..Len(applied[c]) : ~applied[c][i].failed
          /\ \E i \in 1..Len(tasks[c]) : tasks[c][i].status = "failed" )
        => ~InDeadLetter(event[c])

\* C3: middleware ordering.  The stages a publish has run are the registered
\* middleware in registration order, the first stage received the published
\* event, each later stage received what the stage before it handed on, the
\* processed event is what the last stage handed on, and tasks exist only once
\* every registered stage has been run.
C3_MiddlewareOrder ==
    \A c \in Calls :
        /\ Len(applied[c]) <= Len(middleware)
        /\ \A i \in 1..Len(applied[c]) :
              /\ applied[c][i].stage = middleware[i]
              /\ applied[c][i].input =
                    (IF i = 1 THEN event[c] ELSE applied[c][i - 1].output)
        /\ pc[c] # "idle"
              => processed_event[c] =
                    (IF applied[c] = <<>> THEN event[c]
                     ELSE applied[c][Len(applied[c])].output)
        /\ tasks[c] # <<>>
              => /\ Len(applied[c]) = Len(mw_at_lookup[c])
                 /\ \A i \in 1..Len(applied[c]) :
                       applied[c][i].stage = mw_at_lookup[c][i]

\* Two different stages have run, the first changed the event, and the handlers
\* have been started on the result.
C3_Witness ==
    \E c \in Calls :
        /\ Len(applied[c]) = 2
        /\ applied[c][1].stage # applied[c][2].stage
        /\ applied[c][1].output # applied[c][1].input
        /\ applied[c][2].input = applied[c][1].output
        /\ \E i \in 1..Len(tasks[c]) : tasks[c][i].status # "pending"

\* C4: a failing middleware stage is a passthrough.  Whenever a stage of a
\* publish has failed, the event that entered the stage was handed on unchanged,
\* the failure did not end the publish, the publish returns only after the
\* lookup with every registered stage run, it does not raise, and its event is
\* not dead-lettered by that failure.
C4_MiddlewareFailurePassthrough ==
    \A c \in Calls :
        \A i \in 1..Len(applied[c]) :
            applied[c][i].failed
            => /\ applied[c][i].output = applied[c][i].input
               /\ ~applied[c][i].escaped
               /\ outcome[c] # "raised"
               /\ pc[c] = "done" => Len(applied[c]) = Len(mw_at_lookup[c])

\* C5: publish returns only after every task it created has settled.
C5_ReturnsAfterAllSettled ==
    \A c \in Calls :
        pc[c] = "done" =>
            \A i \in 1..Len(tasks[c]) : tasks[c][i].status \notin {"pending", "running"}

\* A publish with two handlers has returned.
C5_Witness ==
    \E c \in Calls :
        /\ pc[c] = "done"
        /\ Len(tasks[c]) >= 2
        /\ \A i \in 1..Len(tasks[c]) : tasks[c][i].status \in {"ok", "failed"}

C7_ExactTypeDispatch ==
    \A c \in Calls :
        \A i \in 1..Len(tasks[c]) :
            \E j \in 1..Len(RegisteredAtLookup(c)) :
                RegisteredAtLookup(c)[j] = tasks[c][i].handler

\* A publish has run the handlers of its event's type while a handler that is
\* subscribed only for another class of the hierarchy was left out.
C7_Witness ==
    \E c \in Calls, t \in EventTypes :
        /\ pc[c] = "done"
        /\ tasks[c] # <<>>
        /\ t # TypeOf(processed_event[c])
        /\ t \in DOMAIN reg_at_lookup[c]
        /\ \E k \in 1..Len(reg_at_lookup[c][t]) :
              \A i \in 1..Len(tasks[c]) : tasks[c][i].handler # reg_at_lookup[c][t][k]

\* The step in which call c, its middleware loop over, finds no handler for the
\* type of its processed event.
NoHandlerStep(c) ==
    /\ pc[c] = "middleware"
    /\ pc'[c] # "middleware"
    /\ mi[c] > Len(middleware)
    /\ (TypeOf(processed_event[c]) \in DOMAIN handlers
           => handlers[TypeOf(processed_event[c])] = <<>>)

C9_DeadLetterOriginal ==
    [][\A c \in Calls :
          (outcome[c] # "dead_lettered" /\ outcome'[c] = "dead_lettered")
          => /\ dead_letter_queue' = Append(dead_letter_queue, event[c])
             /\ event'[c] = event[c]]_vars

\* A publish whose middleware had already changed the event was dead-lettered.
C9_Witness ==
    \E c \in Calls :
        /\ outcome[c] = "dead_lettered"
        /\ processed_event[c] # event[c]
        /\ \E i \in 1..Len(dead_letter_queue) : dead_letter_queue[i] = event[c]

RECURSIVE ConcatBatches(_, _)
ConcatBatches(order, a) ==
    IF order = <<>> THEN <<>>
    ELSE LET c == Head(order) IN
         (IF appends[c].aggregate = a THEN appends[c].batch ELSE <<>>)
            \o ConcatBatches(Tail(order), a)

IsPrefix(p, q) == Len(p) <= Len(q) /\ SubSeq(q, 1, Len(p)) = p

\* A completed save_events call whose expected_version was supplied and
\* differed from the number of events stored for its aggregate when it ran.
StaleAppend(c) ==
    /\ appends[c].state = "done"
    /\ appends[c].expected # None
    /\ appends[c].expected[1] # appends[c].len_before

\* C11: optimistic locking.  A save_events call whose expected_version is
\* supplied and differs from the aggregate's current number of stored events
\* fails with a concurrency conflict and stores none of its batch.
C11_StaleAppendRejected ==
    \A c \in AppendCalls :
        StaleAppend(c) => appends[c].result = "conflict" /\ appends[c].written = 0

\* The log of aggregate a as the save_events calls completed before the last
\* get_events built it.
LogAtRead(a) == ConcatBatches(SubSeq(commit_order, 1, last_read.commits), a)

\* C12: get_events(a) returns the batches of the completed save_events calls
\* for a, concatenated in the order the calls ran, each batch in its own
\* order; get_events(a, from_version=k) with 0 <= k <= length returns exactly
\* the elements k+1, k+2, ... of that sequence.
C12_ReadReturnsAppendedSuffix ==
    last_read.aggregate # "none" =>
        LET log == LogAtRead(last_read.aggregate)
            fv == last_read.from_version
            res == last_read.result
        IN /\ fv = None => res = log
           /\ (fv # None /\ 0 <= fv[1] /\ fv[1] <= Len(log)) =>
                 /\ Len(res) = Len(log) - fv[1]
                 /\ \A i \in 1..Len(res) : res[i] = log[fv[1] + i]

\* A read from offset 1 of an aggregate that two non-empty appends wrote,
\* returning at least two events.
C12_Witness ==
    /\ last_read.aggregate \in Aggregates
    /\ last_read.from_version = Some(1)
    /\ last_read.commits = 2
    /\ \A i \in 1..2 : /\ appends[commit_order[i]].aggregate = last_read.aggregate
                        /\ appends[commit_order[i]].batch # <<>>
    /\ Len(last_read.result) >= 2

\* C13: append-only log.  In every step the stored sequence of each aggregate
\* stays a prefix of its stored sequence after the step and its entry stays,
\* and the number of events stored for an aggregate equals the number of events
\* of the completed save_events calls for it.
C13_AppendOnly ==
    [][/\ \A a \in DOMAIN store :
             a \in DOMAIN store' /\ IsPrefix(store[a], store'[a])
       /\ \A a \in Aggregates :
             StoredLen(store', a) = Len(ConcatBatches(commit_order', a))]_vars

\* An aggregate holds the events of two non-empty appends and has been read.
C13_Witness ==
    /\ Len(commit_order) = 2
    /\ \A i \in 1..2 : /\ appends[commit_order[i]].aggregate = "A"
                        /\ appends[commit_order[i]].batch # <<>>
    /\ StoredLen(store, "A") >= 2
    /\ last_read.aggregate = "A"
    /\ last_read.commits = 1

\* C14: save_events calls are atomic and serialized.  At every moment each call
\* has stored none or all of its batch, and the log of every aggregate is the
\* concatenation of the whole batches of the completed calls in the order the
\* calls ran: two concurrent calls leave B1 B2 or B2 B1, never an interleaving.
C14_AppendsAtomic ==
    /\ \A c \in AppendCalls : appends[c].written \in {0, Len(appends[c].batch)}
    /\ \A a \in Aggregates :
          (IF a \in DOMAIN store THEN store[a] ELSE <<>>) = ConcatBatches(commit_order, a)

\* Two calls with two-event batches for one aggregate were pending together
\* and the later call ran first.
C14_Witness ==
    /\ commit_order = <<2, 1>>
    /\ appends[1].aggregate = appends[2].aggregate
    /\ Len(appends[1].batch) = 2
    /\ Len(appends[2].batch) = 2
    /\ store[appends[1].aggregate] = appends[2].batch \o appends[1].batch

\* C15: a get_events step for an aggregate id without an entry in the store
\* returns the empty list, with or without from_version, does not raise, and
\* leaves the store without an entry for that id.
C15_UnknownAggregateRead ==
    [][\A a \in Aggregates :
          (a \notin DOMAIN store /\ last_read' # last_read /\ last_read'.aggregate = a)
             => /\ last_read'.result = <<>>
                /\ ~last_read'.raised
                /\ a \notin DOMAIN store'
                /\ store' = store]_vars

\* Aggregate B was read from offset 1 while only aggregate A holds events.
C15_Witness ==
    /\ last_read.aggregate = "B"
    /\ last_read.from_version = Some(1)
    /\ last_read.result = <<>>
    /\ "B" \notin DOMAIN store
    /\ StoredLen(store, "A") > 0
    /\ \A c \in AppendCalls : appends[c].aggregate # "B"

\* ------------------------------------------------------- shipped middleware
MetadataKeys(e) == {e.metadata[i] : i \in DOMAIN e.metadata}

\* C16: metrics_middleware returns, for every event, an envelope whose metadata
\* holds processing_started_at and middleware_applied next to every key of the
\* input's metadata, so the handlers of a publish through a bus with
\* metrics_middleware registered receive an event carrying those two keys.
C16_MetricsMiddlewareStamps ==
    \A c \in Calls :
        /\ \A i \in 1..Len(applied[c]) :
              applied[c][i].stage = "metrics_middleware"
              => /\ ~applied[c][i].failed
                 /\ {"processing_started_at", "middleware_applied"}
                       \subseteq MetadataKeys(applied[c][i].output)
                 /\ MetadataKeys(applied[c][i].input)
                       \subseteq MetadataKeys(applied[c][i].output)
        /\ (tasks[c] # <<>> /\ \E i \in 1..Len(applied[c]) :
                                 applied[c][i].stage = "metrics_middleware")
              => {"processing_started_at", "middleware_applied"}
                    \subseteq MetadataKeys(processed_event[c])

\* ------------------------------------------------------- event construction
\* Classes whose aggregate id is derived from an optional override.
OverrideClasses == {"AnomalyDetected", "LogPatternIdentified"}

\* The primary entity id field of the classes bound to one entity.
PrimaryIdField(cls) ==
    CASE cls \in {"LogEntryCreated", "LogClassificationCompleted"} -> "log_id"
      [] cls \in {"IncidentCreated", "IncidentResolved", "IncidentEscalated",
                  "IncidentSlaBreached"} -> "incident_id"
      [] cls \in {"ModelTrainingStarted", "ModelTrainingCompleted", "ModelDeployed",
                  "ModelPerformanceDegraded"} -> "model_id"

\* The confidence and accuracy fields of a class.
RatioFields(cls) ==
    CASE cls = "LogClassificationCompleted" -> {"confidence"}
      [] cls = "ModelTrainingCompleted" -> {"accuracy"}
      [] cls = "ModelPerformanceDegraded" -> {"current_accuracy", "threshold_accuracy"}
      [] OTHER -> {}

\* The duration, size and frequency fields of a class.
AmountFields(cls) ==
    CASE cls = "LogClassificationCompleted" -> {"processing_time_ms"}
      [] cls = "LogPatternIdentified" -> {"frequency_per_hour"}
      [] cls = "IncidentResolved" -> {"resolution_time_minutes"}
      [] cls = "IncidentSlaBreached" -> {"target_minutes", "actual_minutes"}
      [] cls = "ModelTrainingStarted" -> {"training_data_size"}
      [] cls = "ModelTrainingCompleted" -> {"training_duration_minutes"}
      [] OTHER -> {}

Built == constructed.type # "none" /\ ~constructed.raised

\* The aggregate id of the last constructed event follows the derivation rule
\* applied to the arguments the constructor received.
DerivationHolds ==
    (Built /\ constructed.type \in OverrideClasses) =>
        LET a == constructed.args
            ov == a.aggregate_root_id
            rel == a[RelatedField(constructed.type)]
            id == constructed.event.fields.aggregate_id
        IN /\ ov # None => id = ov[1]
           /\ (ov = None /\ rel # <<>>) => id = rel[1]
           /\ (ov = None /\ rel = <<>>) =>
                 /\ id \notin CallerIds \cup {0, constructed.event.event_id}
                 /\ id = Uuid4(next_uuid)

\* C17: for AnomalyDetected and LogPatternIdentified, aggregate_id is the
\* override if one is supplied, else the first element of the related-entity
\* list if it is non-empty, else a freshly generated id; and in every later
\* step on the same event (the caller mutating the list it passed) the
\* aggregate_id stays what it was.
C17_AggregateIdDerivation ==
    [][/\ DerivationHolds'
       /\ (Built /\ constructed'.event.event_id = constructed.event.event_id)
             => constructed'.event.fields.aggregate_id
                   = constructed.event.fields.aggregate_id]_vars

\* An AnomalyDetected built without override from the list <<1, 2>> keeps
\* aggregate id 1 after the caller reversed the list.
C17_Witness ==
    /\ constructed.type = "AnomalyDetected"
    /\ ~constructed.raised
    /\ constructed.args.aggregate_root_id = None
    /\ constructed.args.affected_logs = <<1, 2>>
    /\ constructed.args.aggregate_id = 2
    /\ constructed.event.fields.affected_logs = <<2, 1>>
    /\ constructed.event.fields.aggregate_id = 1

\* C18: after construction of a log, incident or ML-model event bound to a
\* primary entity, aggregate_id equals log_id, incident_id or model_id,
\* whatever was passed as the aggregate_id argument.
C18_AggregateIdIsPrimaryId ==
    (Built /\ constructed.type \notin OverrideClasses) =>
        constructed.event.fields.aggregate_id
            = constructed.args[PrimaryIdField(constructed.type)]

\* A ModelDeployed and an IncidentCreated are built with an aggregate_id
\* argument different from the primary id.
C18_Witness ==
    /\ constructed.type \in {"ModelDeployed", "IncidentCreated"}
    /\ ~constructed.raised
    /\ constructed.args.aggregate_id = 1
    /\ constructed.args[PrimaryIdField(constructed.type)] = 2
    /\ constructed.event.fields.aggregate_id = 2

OutsideUnit(x) == x < AsHalves(0) \/ x > AsHalves(1)

\* C19: constructing an event with a confidence or accuracy field outside
\* [0, 1] fails and yields no event; with every such field inside the range
\* (bounds included) and the other validated fields valid, construction
\* succeeds and each stored field equals the input.
C19_RatioFieldsValidated ==
    (constructed.type # "none" /\ RatioFields(constructed.type) # {}) =>
        LET a == constructed.args
            rf == RatioFields(constructed.type)
            af == AmountFields(constructed.type)
        IN /\ (\E f \in rf : OutsideUnit(a[f]))
                 => constructed.raised /\ constructed.event = NoConstructedEvent
           /\ ((\A f \in rf : ~OutsideUnit(a[f])) /\ (\A f \in af : a[f] >= 0))
                 => /\ ~constructed.raised
                    /\ \A f \in rf : constructed.event.fields[f] = a[f]

\* A ModelPerformanceDegraded built with accuracies 0.0 and 1.0.
C19_Witness ==
    /\ constructed.type = "ModelPerformanceDegraded"
    /\ ~constructed.raised
    /\ constructed.event.fields.current_accuracy = AsHalves(0)
    /\ constructed.event.fields.threshold_accuracy = AsHalves(1)

\* C20: constructing any shipped event with a negative duration, size or
\* frequency field fails; zero is accepted.
C20_NegativeAmountsRejected ==
    (constructed.type # "none" /\ AmountFields(constructed.type) # {}) =>
        LET a == constructed.args
            af == AmountFields(constructed.type)
        IN /\ (\E f \in af : a[f] < 0) => constructed.raised
           /\ ((\A f \in af : a[f] = 0)
                  /\ \A f \in RatioFields(constructed.type) : ~OutsideUnit(a[f]))
                 => ~constructed.raised

\* C21: events are immutable after construction.  In every step that leaves
\* the same constructed event in place, every envelope and business field of
\* the event keeps its value, and an attempted attribute assignment ends with
\* an error.
C21_EventsImmutable ==
    [][(Built /\ constructed'.event.event_id = constructed.event.event_id)
          => /\ constructed'.event = constructed.event
             /\ last_setattr' \in {last_setattr, "FrozenInstanceError"}]_vars

\* C22: a step that constructs an event of any shipped class leaves an event
\* whose envelope version is the integer 1, whose event_type is the name of
\* the class and whose metadata is empty.
C22_EnvelopeDefaults ==
    [][(constructed'.event.event_id # constructed.event.event_id /\ ~constructed'.raised)
          => /\ constructed'.event.version = PyInt1
             /\ constructed'.event.event_type = constructed'.type
             /\ constructed'.event.metadata = <<>>]_vars

\* ---------------------------------------------------------------- fan-out
\* The tasks of call c are one per handler registered at its lookup, in
\* registration order.
SubmittedInOrder(c) ==
    /\ Len(tasks[c]) = Len(RegisteredAtLookup(c))
    /\ \A i \in 1..Len(tasks[c]) : tasks[c][i].handler = RegisteredAtLookup(c)[i]

\* C23: the step in which publish begins to wait has created one invocation
\* per matching handler, in registration order, none of them settled yet; and
\* as long as publish waits the invocations stay these, whatever order they
\* settle in.
C23_SubmittedBeforeWaiting ==
    [][\A c \in Calls :
          /\ (pc[c] # "gather" /\ pc'[c] = "gather")
                => /\ tasks'[c] # <<>>
                   /\ \A i \in 1..Len(tasks'[c]) : tasks'[c][i].status = "pending"
          /\ pc'[c] = "gather" => SubmittedInOrder(c)']_vars

\* Two different handlers were submitted and the second settled while the
\* first is still running.
C23_Witness ==
    \E c \in Calls :
        /\ pc[c] = "gather"
        /\ Len(tasks[c]) = 2
        /\ tasks[c][1].handler # tasks[c][2].handler
        /\ tasks[c][1].status = "running"
        /\ tasks[c][2].status \in {"ok", "failed"}

\* ------------------------------------------------------------ dead letters
DeadLettered == {c \in Calls : outcome[c] = "dead_lettered"}

\* C25: whatever the interleaving of the publish calls, the dead-letter queue
\* holds the original event of every call that failed in the orchestration
\* exactly once, and nothing else.
C25_DeadLetterExactlyOnce ==
    /\ \A c \in DeadLettered : Occurrences(dead_letter_queue, event[c]) = 1
    /\ Len(dead_letter_queue) = Cardinality(DeadLettered)
    /\ \A i \in 1..Len(dead_letter_queue) :
          \E c \in DeadLettered : dead_letter_queue[i] = event[c]

\* Two publish calls ran concurrently and both failed in the orchestration,
\* the later call first.
C25_Witness ==
    /\ DeadLettered = {1, 2}
    /\ dlq_at_publish[2] = 0
    /\ dead_letter_queue = <<event[2], event[1]>>

\* The output of the last middleware stage call c ran; the argument of publish
\* if it ran none.
LastOutput(c) ==
    IF applied[c] = <<>> THEN event[c] ELSE applied[c][Len(applied[c])].output

\* The handlers registered for type t when call c looked its handlers up.
RegisteredFor(c, t) ==
    IF t \in DOMAIN reg_at_lookup[c] THEN reg_at_lookup[c][t] ELSE <<>>

\* C27: every handler invocation of a publish is called with the same event,
\* the output of the last middleware stage (the argument of publish when no
\* stage ran or every stage passed it through), and the invoked handlers are
\* those registered for the type of that output, not for the type of the
\* argument of publish.
C27_HandlersReceiveProcessedEvent ==
    \A c \in Calls :
        (ReachedLookup(c) /\ tasks[c] # <<>>) =>
            /\ \A i \in 1..Len(tasks[c]) : tasks[c][i].event = LastOutput(c)
            /\ Len(tasks[c]) = Len(RegisteredFor(c, TypeOf(LastOutput(c))))
            /\ \A i \in 1..Len(tasks[c]) :
                  tasks[c][i].handler = RegisteredFor(c, TypeOf(LastOutput(c)))[i]

\* A DomainEvent was published through a stage that tagged it and a stage that
\* turned it into a SimpleEvent; different handlers are registered for the two
\* types and the handler of SimpleEvent ran with the tagged SimpleEvent.
C27_Witness ==
    \E c \in Calls :
        /\ pc[c] = "done"
        /\ TypeOf(event[c]) = "DomainEvent"
        /\ Len(applied[c]) = 2
        /\ TypeOf(LastOutput(c)) = "SimpleEvent"
        /\ LastOutput(c).metadata = <<"a">>
        /\ RegisteredFor(c, "DomainEvent") = <<"handle_event">>
        /\ RegisteredFor(c, "SimpleEvent") = <<"partial_handler">>
        /\ Len(tasks[c]) = 1
        /\ tasks[c][1].handler = "partial_handler"
        /\ tasks[c][1].status = "ok"
        /\ tasks[c][1].event = LastOutput(c)

\* ---------------------------------------------------------------- waiting
\* Task i of call c exists and has not settled.
Unsettled(c, i) == i <= Len(tasks[c]) /\ ~Settled(tasks[c][i])

C26_OnlyClearRemoves ==
    [][/\ clears' = clears => IsPrefix(dead_letter_queue, dead_letter_queue')
       /\ clears' # clears => dead_letter_queue' = <<>>
       /\ (dlq_read' # dlq_read /\ ~dlq_read'.mutated)
             => /\ dlq_read'.result = dead_letter_queue
                /\ dead_letter_queue' = dead_letter_queue]_vars

\* The first publish was dead-lettered, the queue was cleared and read (empty),
\* then the second publish was dead-lettered.
C26_Witness ==
    /\ clears = 1
    /\ DeadLettered = {1, 2}
    /\ dlq_read.called
    /\ dlq_read.result = <<>>
    /\ dead_letter_queue = <<event[2]>>

\* C28: a step of a publish call changes neither the handler registry nor the
\* middleware list nor the event store.
C28_PublishFrame ==
    [][callVars' # callVars
          => /\ handlers' = handlers
             /\ middleware' = middleware
             /\ storeVars' = storeVars]_vars

\* A publish is waiting for its handlers on a bus with a handler and a
\* middleware registered while the event store holds events.
C28_Witness ==
    \E c \in Calls :
        /\ pc[c] = "gather"
        /\ Len(applied[c]) >= 1
        /\ handlers = reg_at_lookup[c]
        /\ "SimpleEvent" \in DOMAIN handlers
        /\ middleware # <<>>
        /\ StoredLen(store, "A") >= 1

\* What the list returned by the latest get_dead_letter_events holds now.
DlqReadContent ==
    IF dlq_read.aliased THEN dead_letter_queue ELSE dlq_read.content

\* What the list returned by the latest get_events holds now.
ReadContent ==
    IF last_read.aliased THEN store[last_read.aggregate] ELSE last_read.content

\* C29: read results are snapshots.  A step in which the caller changes the
\* list returned by get_events or get_dead_letter_events leaves the store and
\* the dead-letter queue as they were, and a step that changes the store or
\* the queue leaves the lists returned earlier as they were.
C29_ReadsAreSnapshots ==
    [][/\ (~dlq_read.mutated /\ dlq_read'.mutated)
             => dead_letter_queue' = dead_letter_queue
       /\ (~last_read.mutated /\ last_read'.mutated) => store' = store
       /\ (dlq_read.called /\ dlq_read' = dlq_read) => DlqReadContent' = DlqReadContent
       /\ (last_read.aggregate # "none" /\ last_read' = last_read)
             => ReadContent' = ReadContent]_vars

\* Both returned lists were changed by their callers, and the store and the
\* queue grew after the reads.
C29_Witness ==
    /\ last_read.aggregate = "A"
    /\ last_read.from_version = None
    /\ last_read.mutated
    /\ Len(last_read.result) = 1
    /\ StoredLen(store, "A") = 2
    /\ dlq_read.called
    /\ dlq_read.mutated
    /\ Len(dlq_read.result) = 1
    /\ Len(dead_letter_queue) = 2

\* ------------------------------------------------------ aggregate isolation
\* C30: a step of a save_events call for one aggregate leaves the stored
\* sequence of every other aggregate, and whether it has an entry, as it was,
\* whatever the interleaving of the calls and whether or not the call's
\* expected_version was stale.
C30_AggregateIsolation ==
    [][\A c \in AppendCalls :
          (appends[c].state # "idle" /\ appends'[c] # appends[c])
             => \A b \in Aggregates \ {appends[c].aggregate} :
                   /\ (b \in DOMAIN store') = (b \in DOMAIN store)
                   /\ b \in DOMAIN store => store'[b] = store[b]]_vars

\* Two calls for different aggregates were pending together, the later ran
\* first, one of them carried a stale expected_version, and each aggregate
\* holds its own batch.
C30_Witness ==
    /\ commit_order = <<2, 1>>
    /\ appends[1].aggregate = "A"
    /\ appends[2].aggregate = "B"
    /\ StaleAppend(1)
    /\ Len(appends[1].batch) = 2
    /\ Len(appends[2].batch) = 1
    /\ store["A"] = appends[1].batch
    /\ store["B"] = appends[2].batch

====
